---- MODULE Spec2Model ----
(***************************************************************************)
(* A model of graph_iter: the FiniteGraph store (finite_graph.rs) and the  *)
(* vertex traversers (vertex_traverser.rs, vertex_container.rs, graph.rs). *)
(***************************************************************************)
EXTENDS Integers, Sequences, FiniteSets, TLC

(***************************************************************************)
(* Bounds of the model.                                                    *)
(***************************************************************************)
\* The Id counter of a store is not advanced beyond MaxId.
MaxId == 4

\* The values a caller stores in vertices and edges. FiniteGraph<V, E> puts
\* no bound on V and only Clone on E: it moves the values and never looks
\* into them.
VertexValues == {"p"}
EdgeValues == {10, 20}

\* The Ids a caller may pass: never issued (0), issued (live or removed,
\* of a vertex or of an edge) and not yet issued.
IdArgs == 0..MaxId

(***************************************************************************)
(* Option<T>: None is the empty tuple, Some(x) the one-element tuple.      *)
(***************************************************************************)
None == <<>>
Some(x) == <<x>>

(***************************************************************************)
(* HashMap helpers.                                                        *)
(***************************************************************************)
Range(seq) == {seq[k] : k \in DOMAIN seq}

EmptyMap == [k \in {} |-> 0]
MapInsert(m, k, v) == [x \in (DOMAIN m) \cup {k} |-> IF x = k THEN v ELSE m[x]]
MapRemove(m, k) == [x \in (DOMAIN m) \ {k} |-> m[x]]
MapGet(m, k) == IF k \in DOMAIN m THEN Some(m[k]) ELSE None

VARIABLES
  id,                     \* FiniteGraph.id: the last Id handed out
  vertices_map,           \* Id -> vertex value
  edges_map,              \* Id -> <<edge value, from, to>>
  neighbors_map,          \* Id -> sequence of <<vertex Id, edge Id>>
  reverse_neighbors_map,  \* Id -> sequence of <<vertex Id, edge Id>>
  last,                   \* the last call that returned a value, and the value
  issued,                 \* every Id an insert call has returned so far
  graph,                  \* the graph a traverser borrows (&'a G)
  trav,                   \* the traverser: start, queue and maps
  out,                    \* the vertices the traverser has handed out so far
  call,                   \* the last call on the traverser and what it returned
  events,                 \* the events next_inner of a DFS traverser has returned
  container,              \* an AstarContainer of its own
  held                    \* the <<value, cost>> pairs pushed and not yet popped

fgvars == <<id, vertices_map, edges_map, neighbors_map, reverse_neighbors_map,
            last, issued>>
travvars == <<graph, trav, out, call, events>>
cvars == <<container, held>>
vars == <<fgvars, travvars, cvars>>

\* The store as one value, for the methods below.
Self == [id |-> id, vertices_map |-> vertices_map, edges_map |-> edges_map,
         neighbors_map |-> neighbors_map,
         reverse_neighbors_map |-> reverse_neighbors_map]

(***************************************************************************)
(* FiniteGraph's methods, as functions from the store to the store after   *)
(* the call (g) and the value returned (ret).                              *)
(***************************************************************************)
FiniteGraph_new ==
  [id |-> 0, vertices_map |-> EmptyMap, edges_map |-> EmptyMap,
   neighbors_map |-> EmptyMap, reverse_neighbors_map |-> EmptyMap]

\* Id::next without the increment.
Id_next_stuck(i) == i

Id_next(i) == i + 1

len(g) == <<Cardinality(DOMAIN g.vertices_map), Cardinality(DOMAIN g.edges_map)>>

get_vertex(g, vertex) == MapGet(g.vertices_map, vertex)

get_edge(g, edge) ==
  IF edge \in DOMAIN g.edges_map THEN Some(g.edges_map[edge][1]) ELSE None

contains_vertex(g, vertex) == vertex \in DOMAIN g.vertices_map

contains_edge(g, edge) == edge \in DOMAIN g.edges_map

insert_vertex(g, value) ==
  LET i == Id_next(g.id)
  IN  [g |-> [g EXCEPT !.id = i, !.vertices_map = MapInsert(@, i, value)],
       ret |-> i]

\* An adjacency list that takes a new entry at its front.
PushEntry_front(map, key, entry) ==
  IF key \in DOMAIN map
  THEN [map EXCEPT ![key] = <<entry>> \o @]
  ELSE MapInsert(map, key, <<entry>>)

\* if let Some(list) = map.get_mut(&key) { list.push(entry) }
\* else { map.insert(key, vec![entry]) }
PushEntry(map, key, entry) ==
  IF key \in DOMAIN map
  THEN [map EXCEPT ![key] = Append(@, entry)]
  ELSE MapInsert(map, key, <<entry>>)

\* insert_edge_id that files the reverse entry under the source.
insert_edge_id_reverse_under_from(g, from, to, edge) ==
  [g |-> [g EXCEPT
            !.neighbors_map = PushEntry(@, from, <<to, edge>>),
            !.reverse_neighbors_map = PushEntry(@, from, <<to, edge>>)],
   ret |-> Some(edge)]

insert_edge_id(g, from, to, edge) ==
  [g |-> [g EXCEPT
            !.neighbors_map = PushEntry(@, from, <<to, edge>>),
            !.reverse_neighbors_map = PushEntry(@, to, <<from, edge>>)],
   ret |-> Some(edge)]

\* insert_edge without the check that both endpoints are live vertices.
insert_edge_unchecked(g, from, to, value) ==
  LET i == Id_next(g.id)
      g1 == [g EXCEPT !.id = i,
                      !.edges_map = MapInsert(@, i, <<value, from, to>>)]
  IN  insert_edge_id(g1, from, to, i)

insert_edge(g, from, to, value) ==
  IF from \notin DOMAIN g.vertices_map \/ to \notin DOMAIN g.vertices_map
  THEN [g |-> g, ret |-> None]
  ELSE LET i == Id_next(g.id)
           g1 == [g EXCEPT !.id = i,
                           !.edges_map = MapInsert(@, i, <<value, from, to>>)]
       IN  insert_edge_id(g1, from, to, i)

\* insert_bi_edge as two independent edge records, one per direction.
insert_bi_edge_two_records(g, from, to, data) ==
  LET edge == insert_edge(g, from, to, data)
  IN  IF edge.ret # None
      THEN [g |-> insert_edge(edge.g, to, from, data).g, ret |-> edge.ret]
      ELSE edge

insert_bi_edge(g, from, to, data) ==
  LET edge == insert_edge(g, from, to, data)
  IN  IF edge.ret # None
      THEN [g |-> insert_edge_id(edge.g, to, from, edge.ret[1]).g,
            ret |-> edge.ret]
      ELSE edge

\* neighbors.iter().position(|(_, e)| e == &edge).map(|index| neighbors.remove(index))
RECURSIVE RemoveFirst(_, _)
RemoveFirst(neighbors, edge) ==
  IF neighbors = <<>> THEN <<>>
  ELSE IF Head(neighbors)[2] = edge THEN Tail(neighbors)
  ELSE <<Head(neighbors)>> \o RemoveFirst(Tail(neighbors), edge)

\* Scrub that drops every entry of the vertex's list.
Scrub_all(map, vertex, edge) ==
  IF vertex \in DOMAIN map
  THEN [map EXCEPT ![vertex] = <<>>]
  ELSE map

\* map.get_mut(&vertex).map(|neighbors| ...)
Scrub(map, vertex, edge) ==
  IF vertex \in DOMAIN map
  THEN [map EXCEPT ![vertex] = RemoveFirst(@, edge)]
  ELSE map

\* remove_edge that cleans the lists of the edge's source only.
remove_edge_source_only(g, edge) ==
  IF edge \notin DOMAIN g.edges_map
  THEN [g |-> g, ret |-> None]
  ELSE LET data == g.edges_map[edge][1]
           vertex == g.edges_map[edge][2]
       IN  [g |-> [g EXCEPT
                     !.edges_map = MapRemove(@, edge),
                     !.neighbors_map = Scrub(@, vertex, edge),
                     !.reverse_neighbors_map = Scrub(@, vertex, edge)],
            ret |-> Some(data)]

remove_edge(g, edge) ==
  IF edge \notin DOMAIN g.edges_map
  THEN [g |-> g, ret |-> None]
  ELSE LET data == g.edges_map[edge][1]
           vertex == g.edges_map[edge][2]
           other == g.edges_map[edge][3]
           n1 == Scrub(g.neighbors_map, vertex, edge)
           r1 == Scrub(g.reverse_neighbors_map, vertex, edge)
           n2 == Scrub(n1, other, edge)
           r2 == Scrub(r1, other, edge)
       IN  [g |-> [g EXCEPT !.edges_map = MapRemove(@, edge),
                            !.neighbors_map = n2,
                            !.reverse_neighbors_map = r2],
            ret |-> Some(data)]

\* for edge in to_delete { self.remove_edge(edge); }
RECURSIVE RemoveEdges(_, _)
RemoveEdges(g, to_delete) ==
  IF to_delete = <<>> THEN g
  ELSE RemoveEdges(remove_edge(g, Head(to_delete)).g, Tail(to_delete))

EdgeIdsOf(list) == [k \in 1..Len(list) |-> list[k][2]]

\* remove_vertex that takes the value and leaves lists and edges alone.
remove_vertex_value_only(g, vertex) ==
  [g |-> [g EXCEPT !.vertices_map = MapRemove(@, vertex)],
   ret |-> MapGet(g.vertices_map, vertex)]

\* remove_vertex that deletes the outgoing edges only.
remove_vertex_outgoing_only(g, vertex) ==
  LET result == MapGet(g.vertices_map, vertex)
      neighbors == IF vertex \in DOMAIN g.neighbors_map
                   THEN g.neighbors_map[vertex] ELSE <<>>
      g1 == [g EXCEPT !.vertices_map = MapRemove(@, vertex),
                      !.neighbors_map = MapRemove(@, vertex),
                      !.reverse_neighbors_map = MapRemove(@, vertex)]
  IN  [g |-> RemoveEdges(g1, EdgeIdsOf(neighbors)), ret |-> result]

remove_vertex(g, vertex) ==
  LET result == MapGet(g.vertices_map, vertex)
      neighbors == IF vertex \in DOMAIN g.neighbors_map
                   THEN g.neighbors_map[vertex] ELSE <<>>
      reverse_neighbors == IF vertex \in DOMAIN g.reverse_neighbors_map
                           THEN g.reverse_neighbors_map[vertex] ELSE <<>>
      g1 == [g EXCEPT !.vertices_map = MapRemove(@, vertex),
                      !.neighbors_map = MapRemove(@, vertex),
                      !.reverse_neighbors_map = MapRemove(@, vertex)]
      to_delete == EdgeIdsOf(neighbors) \o EdgeIdsOf(reverse_neighbors)
  IN  [g |-> RemoveEdges(g1, to_delete), ret |-> result]

\* Graph<Id> for FiniteGraph
neighbors(g, vertex) ==
  IF vertex \in DOMAIN g.neighbors_map
  THEN [k \in 1..Len(g.neighbors_map[vertex]) |-> g.neighbors_map[vertex][k][1]]
  ELSE <<>>

\* ReversableGraph<Id> for FiniteGraph
reverse_neighbors(g, vertex) ==
  IF vertex \in DOMAIN g.reverse_neighbors_map
  THEN [k \in 1..Len(g.reverse_neighbors_map[vertex]) |->
          g.reverse_neighbors_map[vertex][k][1]]
  ELSE <<>>

\* .filter(|&(v, _)| v == other).filter_map(|&(_, e)| self.get_edge(e).cloned())
RECURSIVE EdgesOfList(_, _, _)
EdgesOfList(g, list, other) ==
  IF list = <<>> THEN <<>>
  ELSE (IF Head(list)[1] = other
        THEN get_edge(g, Head(list)[2])
        ELSE <<>>) \o EdgesOfList(g, Tail(list), other)

\* EdgedGraph<Id, E> for FiniteGraph
edges(g, vertex, other) ==
  IF vertex \in DOMAIN g.neighbors_map
  THEN EdgesOfList(g, g.neighbors_map[vertex], other)
  ELSE <<>>


(***************************************************************************)
(* Reversed<FiniteGraph> (graph_adapters.rs): the view graph.rev() returns. *)
(***************************************************************************)
\* Graph<V> for Reversed
Reversed_neighbors(g, vertex) == reverse_neighbors(g, vertex)

\* ReversableGraph<V> for Reversed
Reversed_reverse_neighbors(g, vertex) == neighbors(g, vertex)

\* EdgedGraph<V, E> for Reversed
Reversed_edges(g, vertex, other) == edges(g, other, vertex)

(***************************************************************************)
(* The graphs the traversers run on: implementations of Graph<V> and       *)
(* EdgedGraph<V, E>. A FiniteGraph store (vertices are Ids), and the       *)
(* graphs of graph.rs's tests (vertices are positions <<x, y>>).           *)
(***************************************************************************)
Abs(x) == IF x < 0 THEN 0 - x ELSE x

\* Graph<Position> for LatticeGraph
LatticeGraph_neighbors(G, vertex) ==
  LET x == vertex[1]
      y == vertex[2]
  IN  SelectSeq(<< <<x - 1, y>>, <<x + 1, y>>, <<x, y - 1>>, <<x, y + 1>> >>,
                LAMBDA v : v \notin Range(G.blocked))

\* Graph<Position> for FullyConnectedGraph
FullyConnectedGraph_neighbors(G, vertex) == G.vertices

\* EdgedGraph<Position, u32> for FullyConnectedGraph
FullyConnectedGraph_edges(G, vertex, other) ==
  << Abs(other[1] - vertex[1])
     + (other[2] - vertex[2]) * (other[2] - vertex[2]) >>

\* Any other implementer of Graph and EdgedGraph: neighbors and edges return
\* what its tables list, a neighbor with no edge to it among them.
TableGraph_neighbors(G, vertex) ==
  IF vertex \in DOMAIN G.neighbors THEN G.neighbors[vertex] ELSE <<>>
TableGraph_edges(G, vertex, other) ==
  IF <<vertex, other>> \in DOMAIN G.edges THEN G.edges[<<vertex, other>>]
  ELSE <<>>

\* self.graph.neighbors(&vertex)
Graph_neighbors(G, vertex) ==
  CASE G.kind = "FiniteGraph" -> neighbors(G.store, vertex)
    [] G.kind = "LatticeGraph" -> LatticeGraph_neighbors(G, vertex)
    [] G.kind = "FullyConnectedGraph" -> FullyConnectedGraph_neighbors(G, vertex)
    [] G.kind = "TableGraph" -> TableGraph_neighbors(G, vertex)

\* self.graph.edges(&vertex, &neighbor)
Graph_edges(G, vertex, other) ==
  CASE G.kind = "FiniteGraph" -> edges(G.store, vertex, other)
    [] G.kind = "FullyConnectedGraph" -> FullyConnectedGraph_edges(G, vertex, other)
    [] G.kind = "TableGraph" -> TableGraph_edges(G, vertex, other)

(***************************************************************************)
(* Frontier containers (vertex_container.rs).                              *)
(***************************************************************************)
BfsContainer_new == <<>>
BfsContainer_push(c, value) == Append(c, value)

\* BfsContainer popping at the back, as a stack does.
BfsContainer_pop_back(c) ==
  IF c = <<>> THEN [c |-> c, ret |-> None]
  ELSE [c |-> SubSeq(c, 1, Len(c) - 1), ret |-> Some(c[Len(c)])]

BfsContainer_pop(c) ==
  IF c = <<>> THEN [c |-> c, ret |-> None]
  ELSE [c |-> Tail(c), ret |-> Some(Head(c))]

\* A heap that hands out the pair pushed first, whatever its cost.
HeapTop_fifo(heap) == CHOOSE a \in heap : \A b \in heap \ {a} : a[2] < b[2]

\* A heap that gives its greatest pair first.
HeapTop_greatest(heap) == CHOOSE a \in heap : \A b \in heap \ {a} : b[1] <= a[1]

\* The heap holds Reverse((cost, id)): its greatest element is the pair that
\* is least by cost and then by id.
HeapLess(a, b) == a[1] < b[1] \/ (a[1] = b[1] /\ a[2] < b[2])
HeapTop(heap) == CHOOSE a \in heap : \A b \in heap \ {a} : HeapLess(a, b)

AstarContainer_new == [id |-> 0, binary_heap |-> {}, id_map |-> EmptyMap]

\* A push that keeps one entry for a value.
AstarContainer_push_replaces(c, value, cost) ==
  LET stale == {i \in DOMAIN c.id_map : c.id_map[i] = value}
  IN  [id |-> c.id + 1,
       binary_heap |-> {e \in c.binary_heap : e[2] \notin stale}
                         \cup {<<cost, c.id>>},
       id_map |-> MapInsert([i \in DOMAIN c.id_map \ stale |-> c.id_map[i]],
                            c.id, value)]

AstarContainer_push(c, value, cost) ==
  [id |-> c.id + 1,
   binary_heap |-> c.binary_heap \cup {<<cost, c.id>>},
   id_map |-> MapInsert(c.id_map, c.id, value)]

\* A pop that counts the call even when nothing is held.
AstarContainer_pop_counts(c) ==
  IF c.binary_heap = {} THEN [c |-> [c EXCEPT !.id = @ + 1], ret |-> None]
  ELSE LET top == HeapTop(c.binary_heap)
       IN  [c |-> [c EXCEPT !.binary_heap = @ \ {top},
                            !.id_map = MapRemove(@, top[2])],
            ret |-> Some(<<c.id_map[top[2]], top[1]>>)]

AstarContainer_pop(c) ==
  IF c.binary_heap = {} THEN [c |-> c, ret |-> None]
  ELSE LET top == HeapTop(c.binary_heap)
       IN  [c |-> [c EXCEPT !.binary_heap = @ \ {top},
                            !.id_map = MapRemove(@, top[2])],
            ret |-> Some(<<c.id_map[top[2]], top[1]>>)]

(***************************************************************************)
(* BfsVertexTrav (vertex_traverser.rs).                                    *)
(***************************************************************************)
BfsVertexTrav_new(start) ==
  [kind |-> "bfs", start |-> start,
   queue |-> BfsContainer_push(BfsContainer_new, start),
   predecessor_map |-> MapInsert(EmptyMap, start, None)]

\* A visit that lets a rediscovery replace the recorded predecessor.
RECURSIVE BfsVisit_overwrites(_, _, _)
BfsVisit_overwrites(t, vertex, nbrs) ==
  IF nbrs = <<>> THEN t
  ELSE LET neighbor == Head(nbrs)
       IN  IF neighbor \in DOMAIN t.predecessor_map
           THEN BfsVisit_overwrites(
                  [t EXCEPT !.predecessor_map =
                     IF neighbor = t.start THEN @
                     ELSE MapInsert(@, neighbor, Some(vertex))],
                  vertex, Tail(nbrs))
           ELSE BfsVisit_overwrites(
                  [t EXCEPT
                     !.queue = BfsContainer_push(@, neighbor),
                     !.predecessor_map = MapInsert(@, neighbor, Some(vertex))],
                  vertex, Tail(nbrs))

\* A visit that queues every neighbour, also one that has a predecessor.
RECURSIVE BfsVisit_requeues(_, _, _)
BfsVisit_requeues(t, vertex, nbrs) ==
  IF nbrs = <<>> THEN t
  ELSE LET neighbor == Head(nbrs)
       IN  BfsVisit_requeues(
             [t EXCEPT
                !.queue = BfsContainer_push(@, neighbor),
                !.predecessor_map =
                  IF neighbor \in DOMAIN @ THEN @
                  ELSE MapInsert(@, neighbor, Some(vertex))],
             vertex, Tail(nbrs))

\* for neighbor in self.graph.neighbors(&vertex) { ... }
RECURSIVE BfsVisit(_, _, _)
BfsVisit(t, vertex, nbrs) ==
  IF nbrs = <<>> THEN t
  ELSE LET neighbor == Head(nbrs)
       IN  IF neighbor \in DOMAIN t.predecessor_map
           THEN BfsVisit(t, vertex, Tail(nbrs))
           ELSE BfsVisit(
                  [t EXCEPT
                     !.queue = BfsContainer_push(@, neighbor),
                     !.predecessor_map = MapInsert(@, neighbor, Some(vertex))],
                  vertex, Tail(nbrs))

BfsVertexTrav_next(G, t) ==
  LET popped == BfsContainer_pop(t.queue)
  IN  IF popped.ret = None
      THEN [t |-> [t EXCEPT !.queue = popped.c], ret |-> None]
      ELSE [t |-> BfsVisit([t EXCEPT !.queue = popped.c], popped.ret[1],
                           Graph_neighbors(G, popped.ret[1])),
            ret |-> popped.ret]

(***************************************************************************)
(* AstarVertexTrav (vertex_traverser.rs): Dijkstra when estimator is None. *)
(***************************************************************************)
AstarVertexTrav_new(start) ==
  [kind |-> "astar", start |-> start,
   queue |-> AstarContainer_push(AstarContainer_new, <<start, 0>>, 0),
   predecessor_map |-> MapInsert(EmptyMap, start, None),
   min_edge_map |-> MapInsert(EmptyMap, start, 0),
   estimator |-> None]

AstarVertexTrav_with_estimator(start, estimator) ==
  [AstarVertexTrav_new(start) EXCEPT !.estimator = Some(estimator)]

\* The first of the edges in place of the least.
SeqMin_first(seq) == IF seq = <<>> THEN None ELSE Some(Head(seq))

\* self.graph.edges(&vertex, &neighbor).into_iter().min()
RECURSIVE SeqMin(_)
SeqMin(seq) ==
  IF seq = <<>> THEN None
  ELSE LET rest == SeqMin(Tail(seq))
       IN  IF rest = None \/ Head(seq) <= rest[1] THEN Some(Head(seq)) ELSE rest

\* The score without the accumulated cost.
Score_estimate_only(t, new_edge, neighbor) ==
  IF t.estimator = None THEN new_edge
  ELSE t.estimator[1][neighbor]

\* let mut score = new_edge.clone();
\* if let Some(estimator) = self.estimator.as_ref() { score = score + estimator(&neighbor); }
Score(t, new_edge, neighbor) ==
  IF t.estimator = None THEN new_edge
  ELSE new_edge + t.estimator[1][neighbor]

\* A comparison that takes an equal cost for a shorter one.
Shorter_or_equal(new_edge, min_edge) == new_edge <= min_edge

\* if &new_edge < min_edge
Shorter(new_edge, min_edge) == new_edge < min_edge

\* A visit that makes the vertex the predecessor of every neighbor it has an
\* edge to, shorter or not.
RECURSIVE AstarVisit_claims(_, _, _, _, _)
AstarVisit_claims(G, t, vertex, edge, nbrs) ==
  IF nbrs = <<>> THEN t
  ELSE
    LET neighbor == Head(nbrs)
        outgoing_edge == SeqMin(Graph_edges(G, vertex, neighbor))
    IN  IF outgoing_edge = None
        THEN AstarVisit_claims(G, t, vertex, edge, Tail(nbrs))
        ELSE
          LET new_edge == edge + outgoing_edge[1]
              edge_shorter ==
                IF neighbor \in DOMAIN t.min_edge_map
                THEN Shorter(new_edge, t.min_edge_map[neighbor])
                ELSE TRUE
          IN  IF edge_shorter
              THEN AstarVisit_claims(G,
                     [t EXCEPT
                        !.min_edge_map = MapInsert(@, neighbor, new_edge),
                        !.queue = AstarContainer_push(@, <<neighbor, new_edge>>,
                                                      Score(t, new_edge, neighbor)),
                        !.predecessor_map = MapInsert(@, neighbor, Some(vertex))],
                     vertex, edge, Tail(nbrs))
              ELSE AstarVisit_claims(G,
                     [t EXCEPT
                        !.predecessor_map = MapInsert(@, neighbor, Some(vertex))],
                     vertex, edge, Tail(nbrs))

\* for neighbor in self.graph.neighbors(&vertex) { ... }
RECURSIVE AstarVisit(_, _, _, _, _)
AstarVisit(G, t, vertex, edge, nbrs) ==
  IF nbrs = <<>> THEN t
  ELSE
    LET neighbor == Head(nbrs)
        outgoing_edge == SeqMin(Graph_edges(G, vertex, neighbor))
    IN  IF outgoing_edge = None
        THEN AstarVisit(G, t, vertex, edge, Tail(nbrs))
        ELSE
          LET new_edge == edge + outgoing_edge[1]
              edge_shorter ==
                IF neighbor \in DOMAIN t.min_edge_map
                THEN Shorter(new_edge, t.min_edge_map[neighbor])
                ELSE TRUE
          IN  IF edge_shorter
              THEN AstarVisit(G,
                     [t EXCEPT
                        !.min_edge_map = MapInsert(@, neighbor, new_edge),
                        !.queue = AstarContainer_push(@, <<neighbor, new_edge>>,
                                                      Score(t, new_edge, neighbor)),
                        !.predecessor_map = MapInsert(@, neighbor, Some(vertex))],
                     vertex, edge, Tail(nbrs))
              ELSE AstarVisit(G, t, vertex, edge, Tail(nbrs))

AstarVertexTrav_next(G, t) ==
  LET vertex_edge == AstarContainer_pop(t.queue)
  IN  IF vertex_edge.ret = None
      THEN [t |-> [t EXCEPT !.queue = vertex_edge.c], ret |-> None]
      ELSE LET vertex == vertex_edge.ret[1][1][1]
               edge == vertex_edge.ret[1][1][2]
           IN  [t |-> AstarVisit(G, [t EXCEPT !.queue = vertex_edge.c],
                                 vertex, edge, Graph_neighbors(G, vertex)),
                ret |-> Some(vertex)]

(***************************************************************************)
(* DfsVertexTrav (vertex_traverser.rs) over a DfsContainer.                *)
(***************************************************************************)
DfsContainer_new == <<>>
DfsContainer_push(c, value) == Append(c, value)
DfsContainer_peek(c) == IF c = <<>> THEN None ELSE Some(c[Len(c)])
DfsContainer_pop(c) ==
  IF c = <<>> THEN [c |-> c, ret |-> None]
  ELSE [c |-> SubSeq(c, 1, Len(c) - 1), ret |-> Some(c[Len(c)])]

DfsVertexTrav_new(start) ==
  [kind |-> "dfs", start |-> start,
   queue |-> DfsContainer_push(DfsContainer_new, <<start, None>>),
   predecessor_finished_map |-> EmptyMap]

\* DfsInnerIterEvent
PreorderItem(v) == [kind |-> "PreorderItem", vertex |-> v]
PostorderItem(v) == [kind |-> "PostorderItem", vertex |-> v]

\* A push of the neighbors that names each its own predecessor.
RECURSIVE DfsPushAll_self(_, _, _)
DfsPushAll_self(queue, vertex, nbrs) ==
  IF nbrs = <<>> THEN queue
  ELSE DfsPushAll_self(DfsContainer_push(queue, <<Head(nbrs), Some(Head(nbrs))>>),
                       vertex, Tail(nbrs))

\* for neighbor in self.graph.neighbors(&vertex) { self.queue.push(..) }
RECURSIVE DfsPushAll(_, _, _)
DfsPushAll(queue, vertex, nbrs) ==
  IF nbrs = <<>> THEN queue
  ELSE DfsPushAll(DfsContainer_push(queue, <<Head(nbrs), Some(vertex)>>),
                  vertex, Tail(nbrs))

\* F(x), with x computed once however often F uses it.
Bind(x, F(_)) == CHOOSE y \in {F(r) : r \in {x}} : TRUE

\* A next_inner that never sets a finished flag.
DfsVertexTrav_next_inner_unflagged(G, t) ==
  LET item == DfsContainer_peek(t.queue)
  IN  IF item = None THEN [t |-> t, ret |-> None]
      ELSE
        LET v == item[1][1]
            p == item[1][2]
        IN  IF v \in DOMAIN t.predecessor_finished_map
            THEN [t |-> [t EXCEPT !.queue = DfsContainer_pop(@).c],
                  ret |-> Some(PostorderItem(v))]
            ELSE [t |-> [t EXCEPT
                           !.predecessor_finished_map = MapInsert(@, v, <<p, FALSE>>),
                           !.queue = DfsPushAll(@, v, Graph_neighbors(G, v))],
                  ret |-> Some(PreorderItem(v))]

RECURSIVE DfsVertexTrav_next_inner(_, _)
DfsVertexTrav_next_inner(G, t) ==
  LET item == DfsContainer_peek(t.queue)
  IN  IF item = None THEN [t |-> t, ret |-> None]
      ELSE
        LET v == item[1][1]
            p == item[1][2]
        IN  IF v \in DOMAIN t.predecessor_finished_map
            THEN Bind([t EXCEPT !.queue = DfsContainer_pop(@).c],
                      LAMBDA popped :
                        IF t.predecessor_finished_map[v][2]
                        THEN DfsVertexTrav_next_inner(G, popped)
                        ELSE [t |-> [popped EXCEPT
                                       !.predecessor_finished_map[v] =
                                         <<@[1], TRUE>>],
                              ret |-> Some(PostorderItem(v))])
            ELSE [t |-> [t EXCEPT
                           !.predecessor_finished_map = MapInsert(@, v, <<p, FALSE>>),
                           !.queue = DfsPushAll(@, v, Graph_neighbors(G, v))],
                  ret |-> Some(PreorderItem(v))]

\* loop { match self.next_inner() { .. } }: events are the events next_inner
\* returned on the way.
RECURSIVE DfsVertexTrav_next(_, _)
DfsVertexTrav_next(G, t) ==
  Bind(DfsVertexTrav_next_inner(G, t),
       LAMBDA r :
         IF r.ret = None THEN [t |-> r.t, ret |-> None, events |-> <<>>]
         ELSE IF r.ret[1].kind = "PreorderItem"
         THEN [t |-> r.t, ret |-> Some(r.ret[1].vertex), events |-> r.ret]
         ELSE Bind(DfsVertexTrav_next(G, r.t),
                   LAMBDA rest : [t |-> rest.t, ret |-> rest.ret,
                                  events |-> r.ret \o rest.events]))

(***************************************************************************)
(* VertexTraverser: the interface the traversers share.                    *)
(***************************************************************************)
first(t) == t.start

next(G, t) ==
  CASE t.kind = "bfs" -> BfsVertexTrav_next(G, t)
    [] t.kind = "astar" -> AstarVertexTrav_next(G, t)
    [] t.kind = "dfs" ->
         Bind(DfsVertexTrav_next(G, t), LAMBDA r : [t |-> r.t, ret |-> r.ret])

\* The events next_inner returns during one call of next().
NextEvents(G, t) ==
  IF t.kind = "dfs" THEN DfsVertexTrav_next(G, t).events ELSE <<>>

\* self.predecessor_map.get(vertex).and_then(|predecessor| predecessor.clone())
\* self.predecessor_finished_map.get(vertex)
\*   .and_then(|(predecessor, _)| predecessor.clone())
predecessor(t, vertex) ==
  IF t.kind = "dfs"
  THEN IF vertex \in DOMAIN t.predecessor_finished_map
       THEN t.predecessor_finished_map[vertex][1] ELSE None
  ELSE IF vertex \in DOMAIN t.predecessor_map
       THEN t.predecessor_map[vertex] ELSE None

\* The vertices the traverser holds a predecessor entry for.
Keyed(t) ==
  IF t.kind = "dfs" THEN DOMAIN t.predecessor_finished_map
  ELSE DOMAIN t.predecessor_map

\* The number of next() calls a single find may make in the model; a find
\* that needs more does not return.
MaxFind == 150

\* Iter::next: the iterator over a traverser hands out what next() returns.
Iter_next(G, t) == next(G, t)

\* self.iter().find(|v| v == target): next() until it returns target or None,
\* at most fuel times. seen are the vertices returned on the way. The calls
\* are made in order, the first half of them and then the rest.
RECURSIVE Find(_, _, _, _)
Find(G, t, target, fuel) ==
  IF fuel <= 1
  THEN Bind(Iter_next(G, t),
            LAMBDA r : [t |-> r.t, seen |-> r.ret, events |-> NextEvents(G, t),
                        returns |-> r.ret = None \/ r.ret = Some(target)])
  ELSE Bind(Find(G, t, target, fuel \div 2),
            LAMBDA a :
              IF a.returns THEN a
              ELSE Bind(Find(G, a.t, target, fuel - (fuel \div 2)),
                        LAMBDA b : [t |-> b.t, seen |-> a.seen \o b.seen,
                                    events |-> a.events \o b.events,
                                    returns |-> b.returns]))

\* self.predecessor_iter(target).collect(): target, its predecessor, and so
\* on while there is one.
RECURSIVE PredecessorIter(_, _, _)
PredecessorIter(t, vertex, fuel) ==
  IF fuel = 0 \/ predecessor(t, vertex) = None THEN <<vertex>>
  ELSE <<vertex>> \o PredecessorIter(t, predecessor(t, vertex)[1], fuel - 1)

Reverse(seq) == [k \in 1..Len(seq) |-> seq[Len(seq) + 1 - k]]

\* A construct_path that returns whatever the walk over the predecessors
\* collected.
construct_path_unguarded(G, t, target) ==
  Bind(IF predecessor(t, target) = None
       THEN Find(G, t, target, MaxFind)
       ELSE [t |-> t, seen |-> <<>>, events |-> <<>>, returns |-> TRUE],
       LAMBDA found :
         Bind(Reverse(PredecessorIter(found.t, target,
                                      Cardinality(Keyed(found.t)))),
              LAMBDA path :
                [t |-> found.t, seen |-> found.seen, events |-> found.events,
                 returns |-> found.returns, ret |-> Some(path)]))

construct_path(G, t, target) ==
  Bind(IF predecessor(t, target) = None
       THEN Find(G, t, target, MaxFind)
       ELSE [t |-> t, seen |-> <<>>, events |-> <<>>, returns |-> TRUE],
       LAMBDA found :
         Bind(Reverse(PredecessorIter(found.t, target,
                                      Cardinality(Keyed(found.t)))),
              LAMBDA path :
                [t |-> found.t, seen |-> found.seen, events |-> found.events,
                 returns |-> found.returns,
                 ret |-> IF Len(path) > 1 \/ target = first(found.t)
                         THEN Some(path) ELSE None]))

\* PrePostIter::next: the iterator pre_post_iter() returns hands out the
\* preorder and postorder events of next_inner as PrePostItems.
PrePostIter_next(G, t) ==
  LET r == DfsVertexTrav_next_inner(G, t)
  IN  [t |-> r.t, ret |-> r.ret, events |-> r.ret]

\* PostIter::next: the iterator post_iter() returns hands out the vertices
\* of the postorder events and passes over the others.
RECURSIVE PostIter_next(_, _)
PostIter_next(G, t) ==
  Bind(DfsVertexTrav_next_inner(G, t),
       LAMBDA r :
         IF r.ret = None THEN [t |-> r.t, ret |-> None, events |-> <<>>]
         ELSE IF r.ret[1].kind = "PostorderItem"
         THEN [t |-> r.t, ret |-> Some(r.ret[1].vertex), events |-> r.ret]
         ELSE Bind(PostIter_next(G, r.t),
                   LAMBDA rest : [t |-> rest.t, ret |-> rest.ret,
                                  events |-> r.ret \o rest.events]))

\* Graph::bfs, Graph::dfs, EdgedGraph::dijkstra, EdgedGraph::astar
bfs(start) == BfsVertexTrav_new(start)
dfs(start) == DfsVertexTrav_new(start)
dijkstra(start) == AstarVertexTrav_new(start)
astar(start, estimator) == AstarVertexTrav_with_estimator(start, estimator)

(***************************************************************************)
(* The store's owner: one action per call.                                 *)
(***************************************************************************)
\* No traverser borrows the graph, and no call has been made on one.
NoTrav == [kind |-> "none"]
NoCall == [name |-> "none", arg |-> None, ret |-> None, before |-> 0]

\* The call is recorded when it returned a value; a call that returned None
\* leaves the record as it was.
Returned(name, ret) ==
  IF ret = None THEN last ELSE [name |-> name, ret |-> ret]

Install(r) ==
  /\ id' = r.g.id
  /\ vertices_map' = r.g.vertices_map
  /\ edges_map' = r.g.edges_map
  /\ neighbors_map' = r.g.neighbors_map
  /\ reverse_neighbors_map' = r.g.reverse_neighbors_map

InsertVertex(value) ==
  /\ id < MaxId
  /\ LET r == insert_vertex(Self, value)
     IN  /\ Install(r)
         /\ last' = [name |-> "insert_vertex", ret |-> Some(r.ret)]
         /\ issued' = issued \cup {r.ret}
         /\ UNCHANGED <<travvars, cvars>>

InsertEdge(from, to, value) ==
  LET r == insert_edge(Self, from, to, value)
  IN  /\ r.ret = None \/ id < MaxId
      /\ Install(r)
      /\ last' = Returned("insert_edge", r.ret)
      /\ issued' = issued \cup {r.ret[k] : k \in DOMAIN r.ret}
      /\ UNCHANGED <<travvars, cvars>>

InsertBiEdge(from, to, data) ==
  LET r == insert_bi_edge(Self, from, to, data)
  IN  /\ r.ret = None \/ id < MaxId
      /\ Install(r)
      /\ last' = Returned("insert_bi_edge", r.ret)
      /\ issued' = issued \cup {r.ret[k] : k \in DOMAIN r.ret}
      /\ UNCHANGED <<travvars, cvars>>

RemoveVertex(vertex) ==
  LET r == remove_vertex(Self, vertex)
  IN  /\ Install(r)
      /\ last' = Returned("remove_vertex", r.ret)
      /\ UNCHANGED issued
      /\ UNCHANGED <<travvars, cvars>>

RemoveEdge(edge) ==
  LET r == remove_edge(Self, edge)
  IN  /\ Install(r)
      /\ last' = Returned("remove_edge", r.ret)
      /\ UNCHANGED issued
      /\ UNCHANGED <<travvars, cvars>>

Init ==
  /\ id = FiniteGraph_new.id
  /\ vertices_map = FiniteGraph_new.vertices_map
  /\ edges_map = FiniteGraph_new.edges_map
  /\ neighbors_map = FiniteGraph_new.neighbors_map
  /\ reverse_neighbors_map = FiniteGraph_new.reverse_neighbors_map
  /\ last = [name |-> "new", ret |-> None]
  /\ issued = {}
  /\ graph = [kind |-> "FiniteGraph"]
  /\ trav = NoTrav
  /\ out = <<>>
  /\ call = NoCall
  /\ events = <<>>
  /\ container = AstarContainer_new
  /\ held = <<>>

Next ==
  \/ \E value \in VertexValues : InsertVertex(value)
  \/ \E from \in IdArgs, to \in IdArgs, value \in EdgeValues :
       InsertEdge(from, to, value)
  \/ \E from \in IdArgs, to \in IdArgs, data \in EdgeValues :
       InsertBiEdge(from, to, data)
  \/ \E vertex \in IdArgs : RemoveVertex(vertex)
  \/ \E edge \in IdArgs : RemoveEdge(edge)

Spec == Init /\ [][Next]_vars


(***************************************************************************)
(* Traversals. A traverser borrows the graph (&'a G), so the graph stays   *)
(* as it is while the traverser lives. The graphs traversed are finite     *)
(* stores built by insert_vertex and insert_edge, and the graphs of        *)
(* graph.rs's tests.                                                       *)
(***************************************************************************)
\* The graph behind the borrow.
TheGraph ==
  IF graph.kind = "FiniteGraph"
  THEN [kind |-> "FiniteGraph", store |-> Self]
  ELSE graph

\* graph.insert_vertex(value), count times
RECURSIVE WithVertices(_, _)
WithVertices(g, count) ==
  IF count = 0 THEN g
  ELSE WithVertices(insert_vertex(g, "p").g, count - 1)

\* graph.insert_edge(from, to, value) for each <<from, to, value>> of the list
RECURSIVE WithEdges(_, _)
WithEdges(g, list) ==
  IF list = <<>> THEN g
  ELSE WithEdges(insert_edge(g, Head(list)[1], Head(list)[2], Head(list)[3]).g,
                 Tail(list))

\* The edges a choice makes of a list of vertex pairs: choice[k] is None for
\* no edge between the k-th pair, or Some(value).
RECURSIVE EdgeList(_, _, _)
EdgeList(pairs, choice, k) ==
  IF k > Len(pairs) THEN <<>>
  ELSE (IF choice[k] = None THEN <<>>
        ELSE << <<pairs[k][1], pairs[k][2], choice[k][1]>> >>)
       \o EdgeList(pairs, choice, k + 1)

Largest(S) == CHOOSE x \in S : \A y \in S : y <= x

\* The store with a vertex for every Id the pairs name and the chosen edges,
\* followed by the extra edges.
BuildGraph(pairs, choice, extra) ==
  WithEdges(
    WithVertices(FiniteGraph_new,
                 Largest({pairs[k][1] : k \in DOMAIN pairs}
                         \cup {pairs[k][2] : k \in DOMAIN pairs})),
    EdgeList(pairs, choice, 1) \o extra)

\* Unweighted graphs on four vertices.
BfsPairs ==
  << <<1, 2>>, <<1, 3>>, <<1, 4>>, <<2, 3>>, <<2, 4>>,
     <<3, 2>>, <<3, 4>>, <<4, 2>>, <<4, 3>> >>
\* Unweighted graphs on five vertices, where a vertex two edges from the first
\* is also found three edges deep.
BfsLongPairs ==
  << <<1, 2>>, <<1, 3>>, <<3, 4>>, <<4, 5>>, <<2, 5>>,
     <<2, 4>>, <<3, 5>>, <<5, 2>> >>
BfsGraphs ==
  {BuildGraph(BfsPairs, choice, <<>>) :
     choice \in [DOMAIN BfsPairs -> {None, Some(10)}]}
  \cup {BuildGraph(BfsLongPairs, choice, <<>>) :
          choice \in [DOMAIN BfsLongPairs -> {None, Some(10)}]}

\* Unweighted graphs on three vertices with edges back to the first vertex,
\* a loop and a parallel edge, and on four vertices with a cycle below the
\* first vertex.
DfsPairs ==
  << <<1, 2>>, <<2, 1>>, <<1, 1>>, <<1, 2>>, <<2, 3>>, <<3, 1>>, <<3, 2>>,
     <<1, 3>> >>
DfsDeepPairs ==
  << <<1, 2>>, <<2, 3>>, <<3, 4>>, <<4, 2>>, <<1, 3>>, <<3, 1>>, <<2, 4>> >>
DfsGraphs ==
  {BuildGraph(DfsPairs, choice, <<>>) :
     choice \in [DOMAIN DfsPairs -> {None, Some(10)}]}
  \cup {BuildGraph(DfsDeepPairs, choice, <<>>) :
          choice \in [DOMAIN DfsDeepPairs -> {None, Some(10)}]}

\* Weighted graphs on three vertices: every weight in 0..MaxWeight, and
\* one more edge that is parallel to another, leads back, or is a loop.
MaxWeight == 1
Weights == 0..MaxWeight
WeightedPairs == << <<1, 2>>, <<1, 3>>, <<2, 3>>, <<3, 2>> >>
ExtraEdges ==
  {<<>>} \cup { << <<e[1], e[2], 0>> >> :
                  e \in {<<1, 2>>, <<2, 3>>, <<2, 1>>, <<2, 2>>} }
WeightChoices == [DOMAIN WeightedPairs -> {None} \cup {Some(w) : w \in Weights}]
DijkstraGraphs ==
  {BuildGraph(WeightedPairs, choice, extra) :
     choice \in WeightChoices, extra \in ExtraEdges}
AstarGraphs ==
  {BuildGraph(WeightedPairs, choice, <<>>) : choice \in WeightChoices}
\* The stores with every edge of the greatest weight and one more edge of
\* weight zero: a store lists a neighbor once for each parallel edge.
ParallelGraphs ==
  {BuildGraph(WeightedPairs, [k \in DOMAIN WeightedPairs |-> Some(MaxWeight)],
              extra) : extra \in ExtraEdges}

\* test_simple_lattice_graph
ScenarioA == [kind |-> "LatticeGraph", blocked |-> << <<0, 1>> >>]

\* Graphs given by tables, on three vertices: 2 and 3 are neighbors of 1 and
\* 3 is one of 2, each with no edge, one edge, or two parallel edges of
\* which the second is the lighter; 1 is a neighbor of 2 and 3 of itself, and
\* 2 lists itself as a neighbor without an edge.
TableEdgeLists == { <<>>, <<0>>, <<1>>, <<1, 0>> }
TableGraphs ==
  {[kind |-> "TableGraph",
    neighbors |-> (1 :> <<2, 3>> @@ 2 :> <<3, 1, 2>> @@ 3 :> <<3>>),
    edges |-> (<<1, 2>> :> e12 @@ <<1, 3>> :> e13 @@ <<2, 3>> :> e23
                 @@ <<2, 1>> :> <<1>> @@ <<3, 3>> :> <<0>>)] :
     e12 \in TableEdgeLists, e13 \in TableEdgeLists, e23 \in TableEdgeLists}

\* test_dijkstra_astar_algorithm
ScenarioB ==
  [kind |-> "FullyConnectedGraph",
   vertices |-> << <<0, 0>>, <<0, 10>>, <<2, 5>>, <<4, 7>>, <<10, 0>>, <<10, 10>> >>]

\* |v| graph.edges(&(0, 0), v)[0]
ScenarioB_estimator ==
  [v \in Range(ScenarioB.vertices) |-> Graph_edges(ScenarioB, <<0, 0>>, v)[1]]

\* The estimators of a store: the functions from its vertices to 0..MaxEstimate.
MaxEstimate == 1
Estimators(G) ==
  CASE G.kind = "FiniteGraph" -> [DOMAIN G.store.vertices_map -> 0..MaxEstimate]
    [] G.kind = "TableGraph" -> [DOMAIN G.neighbors -> 0..MaxEstimate]
    [] OTHER -> {ScenarioB_estimator}

\* The vertices a traversal is started from and asked a path to.
LatticeTargets == { <<0, 0>>, <<0, 5>>, <<0, 1>>, <<0, 2>>, <<1, 1>> }
Starts(G) ==
  CASE G.kind = "FiniteGraph" -> DOMAIN G.store.vertices_map
    [] G.kind = "LatticeGraph" -> { <<0, 0>> }
    [] G.kind = "FullyConnectedGraph" -> Range(G.vertices)
    [] G.kind = "TableGraph" -> DOMAIN G.neighbors
Targets(G) ==
  CASE G.kind = "FiniteGraph" -> DOMAIN G.store.vertices_map \cup {0}
    [] G.kind = "LatticeGraph" -> LatticeTargets
    [] G.kind = "FullyConnectedGraph" -> Range(G.vertices)
    [] G.kind = "TableGraph" -> DOMAIN G.neighbors \cup {0}

\* The number of vertices next() may return in a run of the model.
MaxCalls == 8

Borrow(G) ==
  /\ graph = IF G.kind = "FiniteGraph" THEN [kind |-> "FiniteGraph"] ELSE G
  /\ LET g == IF G.kind = "FiniteGraph" THEN G.store ELSE FiniteGraph_new
     IN  /\ id = g.id
         /\ vertices_map = g.vertices_map
         /\ edges_map = g.edges_map
         /\ neighbors_map = g.neighbors_map
         /\ reverse_neighbors_map = g.reverse_neighbors_map
         /\ last = [name |-> "new", ret |-> None]
         /\ issued = 1..g.id
  /\ trav = NoTrav
  /\ out = <<>>
  /\ call = NoCall
  /\ events = <<>>
  /\ container = AstarContainer_new
  /\ held = <<>>

\* let mut traverser = graph.bfs(&start);
Bfs(start) ==
  /\ trav = NoTrav
  /\ trav' = bfs(start)
  /\ UNCHANGED <<fgvars, graph, out, call, events, cvars>>

\* let mut traverser = graph.dijkstra(&start);
Dijkstra(start) ==
  /\ trav = NoTrav
  /\ trav' = dijkstra(start)
  /\ UNCHANGED <<fgvars, graph, out, call, events, cvars>>

\* let mut traverser = graph.astar(&start, estimator);
Astar(start, estimator) ==
  /\ trav = NoTrav
  /\ trav' = astar(start, estimator)
  /\ UNCHANGED <<fgvars, graph, out, call, events, cvars>>

\* traverser.next()
TravNext ==
  /\ trav # NoTrav
  /\ Len(out) < MaxCalls
  /\ LET r == next(TheGraph, trav)
     IN  /\ trav' = r.t
         /\ out' = out \o r.ret
         /\ call' = [name |-> "next", arg |-> None, ret |-> r.ret,
                     before |-> Len(out)]
  /\ events' = events \o NextEvents(TheGraph, trav)
  /\ UNCHANGED <<fgvars, graph, cvars>>

\* traverser.construct_path(&target)
ConstructPath(target) ==
  /\ trav # NoTrav
  /\ LET r == construct_path(TheGraph, trav, target)
     IN  /\ r.returns
         /\ trav' = r.t
         /\ out' = out \o r.seen
         /\ call' = [name |-> "construct_path", arg |-> Some(target),
                     ret |-> r.ret, before |-> Len(out)]
         /\ events' = events \o r.events
  /\ UNCHANGED <<fgvars, graph, cvars>>

\* The vertices of the preorder events among evs, in order.
RECURSIVE Preordered(_)
Preordered(evs) ==
  IF evs = <<>> THEN <<>>
  ELSE (IF Head(evs).kind = "PreorderItem" THEN <<Head(evs).vertex>> ELSE <<>>)
       \o Preordered(Tail(evs))

\* let mut traverser = graph.dfs(&start);
Dfs(start) ==
  /\ trav = NoTrav
  /\ trav' = dfs(start)
  /\ UNCHANGED <<fgvars, graph, out, call, events, cvars>>

\* traverser.pre_post_iter().next()
PrePostNext ==
  /\ trav # NoTrav
  /\ trav.kind = "dfs"
  /\ LET r == PrePostIter_next(TheGraph, trav)
     IN  /\ trav' = r.t
         /\ out' = out \o Preordered(r.events)
         /\ events' = events \o r.events
         /\ call' = [name |-> "pre_post_iter.next", arg |-> None, ret |-> r.ret,
                     before |-> Len(out)]
  /\ UNCHANGED <<fgvars, graph, cvars>>

\* traverser.post_iter().next()
PostNext ==
  /\ trav # NoTrav
  /\ trav.kind = "dfs"
  /\ LET r == PostIter_next(TheGraph, trav)
     IN  /\ trav' = r.t
         /\ out' = out \o Preordered(r.events)
         /\ events' = events \o r.events
         /\ call' = [name |-> "post_iter.next", arg |-> None, ret |-> r.ret,
                     before |-> Len(out)]
  /\ UNCHANGED <<fgvars, graph, cvars>>

BfsInit ==
  \E G \in {[kind |-> "FiniteGraph", store |-> g] : g \in BfsGraphs}
           \cup {ScenarioA} : Borrow(G)

BfsNext ==
  \/ \E start \in Starts(TheGraph) : Bfs(start)
  \/ TravNext
  \/ \E target \in Targets(TheGraph) : ConstructPath(target)

BfsSpec == BfsInit /\ [][BfsNext]_vars

DijkstraInit ==
  \E G \in {[kind |-> "FiniteGraph", store |-> g] : g \in DijkstraGraphs}
           \cup {ScenarioB} : Borrow(G)

DijkstraNext ==
  \/ \E start \in Starts(TheGraph) : Dijkstra(start)
  \/ TravNext
  \/ \E target \in Targets(TheGraph) : ConstructPath(target)

DijkstraSpec == DijkstraInit /\ [][DijkstraNext]_vars

AstarInit ==
  \E G \in {[kind |-> "FiniteGraph", store |-> g] : g \in AstarGraphs}
           \cup {ScenarioB} : Borrow(G)

AstarNext ==
  \/ \E start \in Starts(TheGraph), estimator \in Estimators(TheGraph) :
       Astar(start, estimator)
  \/ TravNext
  \/ \E target \in Targets(TheGraph) : ConstructPath(target)

AstarSpec == AstarInit /\ [][AstarNext]_vars

\* Single steps of Dijkstra and A* traversers, over the weighted stores and
\* the graphs given by tables.
RelaxInit ==
  \E G \in {[kind |-> "FiniteGraph", store |-> g] :
              g \in AstarGraphs \cup ParallelGraphs}
           \cup TableGraphs : Borrow(G)

RelaxNext ==
  \/ \E start \in Starts(TheGraph) : Dijkstra(start)
  \/ \E start \in Starts(TheGraph), estimator \in Estimators(TheGraph) :
       Astar(start, estimator)
  \/ TravNext

RelaxSpec == RelaxInit /\ [][RelaxNext]_vars

(***************************************************************************)
(* An AstarContainer on its own: any sequence of push and pop, as in        *)
(* tests::astar_container. held lists the pairs pushed and not yet          *)
(* returned, in the order of their push.                                    *)
(***************************************************************************)
MaxPushes == 4
MaxCost == 2
AstarKeys == {"k1", "k2"}

\* seq without its first entry equal to x.
RECURSIVE DropFirst(_, _)
DropFirst(seq, x) ==
  IF seq = <<>> THEN <<>>
  ELSE IF Head(seq) = x THEN Tail(seq)
  ELSE <<Head(seq)>> \o DropFirst(Tail(seq), x)

\* container.push(value, cost)
Push(value, cost) ==
  /\ container.id < MaxPushes
  /\ container' = AstarContainer_push(container, value, cost)
  /\ held' = Append(held, <<value, cost>>)
  /\ UNCHANGED <<fgvars, travvars>>

\* container.pop()
Pop ==
  /\ LET r == AstarContainer_pop(container)
     IN  /\ container' = r.c
         /\ held' = IF r.ret = None THEN held ELSE DropFirst(held, r.ret[1])
  /\ UNCHANGED <<fgvars, travvars>>

ContainerNext ==
  \/ \E value \in AstarKeys, cost \in 0..MaxCost : Push(value, cost)
  \/ Pop

ContainerSpec == Init /\ [][ContainerNext]_vars

\* Depth-first traversals of the stores with cycles, loops and parallel edges.
DfsInit ==
  \E G \in {[kind |-> "FiniteGraph", store |-> g] : g \in DfsGraphs} : Borrow(G)

DfsNext ==
  \/ \E start \in Starts(TheGraph) : Dfs(start)
  \/ TravNext
  \/ PrePostNext
  \/ PostNext
  \/ \E target \in Targets(TheGraph) : ConstructPath(target)

DfsSpec == DfsInit /\ [][DfsNext]_vars

\* Traversals of every kind over the same graphs. The lattice has no edges
\* to weigh: it is no EdgedGraph.
Edged(G) == G.kind # "LatticeGraph"

TraversalInit ==
  \E G \in {[kind |-> "FiniteGraph", store |-> g] : g \in AstarGraphs}
           \cup {ScenarioA, ScenarioB} : Borrow(G)

TraversalNext ==
  \/ \E start \in Starts(TheGraph) : Bfs(start)
  \/ \E start \in Starts(TheGraph) : Dfs(start)
  \/ \E start \in Starts(TheGraph) : Edged(TheGraph) /\ Dijkstra(start)
  \/ \E start \in Starts(TheGraph), estimator \in Estimators(TheGraph) :
       Edged(TheGraph) /\ Astar(start, estimator)
  \/ TravNext
  \/ \E target \in Targets(TheGraph) : ConstructPath(target)

TraversalSpec == TraversalInit /\ [][TraversalNext]_vars

(***************************************************************************)
(* Vocabulary of the store's properties.                                   *)
(***************************************************************************)
\* The adjacency list a map holds for a vertex; none is the empty list.
ListOf(map, vertex) == IF vertex \in DOMAIN map THEN map[vertex] ELSE <<>>

\* The entries of a list that carry none of the edge Ids in gone, in order.
Without(list, gone) == SelectSeq(list, LAMBDA entry : entry[2] \notin gone)

LiveVertices == DOMAIN vertices_map
LiveEdges == DOMAIN edges_map
AdjacencyKeys == (DOMAIN neighbors_map) \cup (DOMAIN reverse_neighbors_map)

\* The edges that have the vertex as source or destination.
IncidentEdges(vertex) ==
  {e \in LiveEdges : edges_map[e][2] = vertex \/ edges_map[e][3] = vertex}

EntriesLive(map) ==
  \A v \in DOMAIN map : \A k \in DOMAIN map[v] :
    /\ map[v][k][2] \in LiveEdges
    /\ map[v][k][1] \in LiveVertices

\* C1: after any sequence of insert_vertex, insert_edge, insert_bi_edge,
\* remove_vertex and remove_edge calls with arbitrary Ids, every entry of
\* every forward and reverse adjacency list names a live edge and a live
\* vertex, and both endpoints of every stored edge are live vertices.
C1_StoreConsistent ==
  /\ EntriesLive(neighbors_map)
  /\ EntriesLive(reverse_neighbors_map)
  /\ \A e \in LiveEdges :
       edges_map[e][2] \in LiveVertices /\ edges_map[e][3] \in LiveVertices

\* A removal has cascaded and adjacency entries are left to be judged.
C1_Witness ==
  /\ last.name = "remove_vertex"
  /\ last.ret # None
  /\ \E v \in DOMAIN neighbors_map : neighbors_map[v] # <<>>

InsertEdgePost(r, from, to, value, exact) ==
  IF from \notin LiveVertices \/ to \notin LiveVertices
  THEN /\ r.ret = None
       /\ r.g.vertices_map = vertices_map
       /\ r.g.edges_map = edges_map
       /\ r.g.neighbors_map = neighbors_map
       /\ r.g.reverse_neighbors_map = reverse_neighbors_map
       /\ r.g.id = id
  ELSE /\ Len(r.ret) = 1
       /\ LET i == r.ret[1]
              fwd == ListOf(r.g.neighbors_map, from)
              rev == ListOf(r.g.reverse_neighbors_map, to)
              oldfwd == ListOf(neighbors_map, from)
              oldrev == ListOf(reverse_neighbors_map, to)
          IN  /\ i \notin issued
              /\ i \notin LiveVertices \cup LiveEdges
              /\ i \in DOMAIN r.g.edges_map
              /\ r.g.edges_map[i] = <<value, from, to>>
              /\ Len(fwd) > Len(oldfwd)
              /\ SubSeq(fwd, 1, Len(oldfwd) + 1) = Append(oldfwd, <<to, i>>)
              /\ Len(rev) > Len(oldrev)
              /\ SubSeq(rev, 1, Len(oldrev) + 1) = Append(oldrev, <<from, i>>)
              /\ exact => /\ fwd = Append(oldfwd, <<to, i>>)
                          /\ rev = Append(oldrev, <<from, i>>)

\* C6: insert_edge and insert_bi_edge return None when from or to is not a
\* live vertex, and then change neither table, neither adjacency map nor the
\* Id counter; with both endpoints live they return a fresh Id, store
\* (value, from, to) under it and append (to, id) to from's forward list and
\* (from, id) to to's reverse list.
C6_InsertEdgeContract ==
  \A from \in IdArgs, to \in IdArgs, value \in EdgeValues :
    /\ InsertEdgePost(insert_edge(Self, from, to, value), from, to, value, TRUE)
    /\ InsertEdgePost(insert_bi_edge(Self, from, to, value), from, to, value, FALSE)

\* An insert_edge has appended to a list that already held an entry, while
\* some Id a caller may pass is no live vertex.
C6_Witness ==
  /\ last.name = "insert_edge"
  /\ last.ret # None
  /\ Len(ListOf(neighbors_map, edges_map[last.ret[1]][2])) >= 2
  /\ \E v \in IdArgs : v \notin LiveVertices

\* C7: remove_vertex(v) on a live vertex returns its value; afterwards v is
\* no vertex, every edge with v as source or destination is gone, len() has
\* dropped by (1, number of incident edges), no neighbors() or
\* reverse_neighbors() of a remaining vertex contains v, and all vertices,
\* edges and adjacency entries not incident to v are unchanged.
C7_RemoveVertexContract ==
  \A v \in LiveVertices :
    LET r == remove_vertex(Self, v)
        incident == IncidentEdges(v)
    IN  /\ r.ret = Some(vertices_map[v])
        /\ DOMAIN r.g.vertices_map = LiveVertices \ {v}
        /\ DOMAIN r.g.edges_map = LiveEdges \ incident
        /\ len(r.g) = <<len(Self)[1] - 1, len(Self)[2] - Cardinality(incident)>>
        /\ \A w \in DOMAIN r.g.vertices_map :
             /\ v \notin Range(neighbors(r.g, w))
             /\ v \notin Range(reverse_neighbors(r.g, w))
             /\ r.g.vertices_map[w] = vertices_map[w]
        /\ \A e \in DOMAIN r.g.edges_map : r.g.edges_map[e] = edges_map[e]
        /\ \A w \in AdjacencyKeys \ {v} :
             /\ ListOf(r.g.neighbors_map, w) =
                  Without(ListOf(neighbors_map, w), incident)
             /\ ListOf(r.g.reverse_neighbors_map, w) =
                  Without(ListOf(reverse_neighbors_map, w), incident)

\* A vertex with an incident edge has been removed and another edge, not
\* incident to it, is still stored.
C7_Witness ==
  /\ last.name = "remove_vertex"
  /\ last.ret # None
  /\ Cardinality(issued) > Cardinality(LiveVertices) + Cardinality(LiveEdges) + 1
  /\ LiveEdges # {}

\* C8: remove_edge(e) on a live edge returns its value, removes e from the
\* edge table and every adjacency entry carrying e from the forward and
\* reverse lists (self-loops and bi-edges included); the vertex table, the
\* other edges and the entries of other edge Ids keep content and order.
C8_RemoveEdgeContract ==
  \A e \in LiveEdges :
    LET r == remove_edge(Self, e)
    IN  /\ r.ret = Some(edges_map[e][1])
        /\ DOMAIN r.g.edges_map = LiveEdges \ {e}
        /\ \A f \in LiveEdges \ {e} : r.g.edges_map[f] = edges_map[f]
        /\ r.g.vertices_map = vertices_map
        /\ \A w \in AdjacencyKeys :
             /\ ListOf(r.g.neighbors_map, w) =
                  Without(ListOf(neighbors_map, w), {e})
             /\ ListOf(r.g.reverse_neighbors_map, w) =
                  Without(ListOf(reverse_neighbors_map, w), {e})

\* An edge has been removed from a store that keeps another edge's entries.
C8_Witness ==
  /\ last.name = "remove_edge"
  /\ last.ret # None
  /\ \E v \in DOMAIN neighbors_map : neighbors_map[v] # <<>>

\* C9: insert_bi_edge(a, b, value) with live a and b creates one edge record
\* under one Id visible in both directions: edges(a, b) and edges(b, a)
\* contain value, b is in neighbors(a) and a in neighbors(b); one
\* remove_edge of that Id takes it out of edges(a, b) and edges(b, a).
C9_BiEdgeShared ==
  \A a \in LiveVertices, b \in LiveVertices, value \in EdgeValues :
    LET r == insert_bi_edge(Self, a, b, value)
        i == r.ret[1]
        r2 == remove_edge(r.g, i)
    IN  /\ r.ret # None
        /\ len(r.g) = <<len(Self)[1], len(Self)[2] + 1>>
        /\ DOMAIN r.g.edges_map = LiveEdges \cup {i}
        /\ <<b, i>> \in Range(ListOf(r.g.neighbors_map, a))
        /\ <<a, i>> \in Range(ListOf(r.g.neighbors_map, b))
        /\ value \in Range(edges(r.g, a, b))
        /\ value \in Range(edges(r.g, b, a))
        /\ a # b => /\ edges(r.g, a, b) = Append(edges(Self, a, b), value)
                    /\ edges(r.g, b, a) = Append(edges(Self, b, a), value)
        /\ b \in Range(neighbors(r.g, a))
        /\ a \in Range(neighbors(r.g, b))
        /\ r2.ret = Some(value)
        /\ edges(r2.g, a, b) = edges(Self, a, b)
        /\ edges(r2.g, b, a) = edges(Self, b, a)
        /\ \A w \in DOMAIN r2.g.neighbors_map :
             \A k \in DOMAIN r2.g.neighbors_map[w] :
               r2.g.neighbors_map[w][k][2] # i

\* An insert_bi_edge between two different vertices has returned an Id.
C9_Witness ==
  /\ last.name = "insert_bi_edge"
  /\ last.ret # None
  /\ last.ret[1] \in LiveEdges
  /\ edges_map[last.ret[1]][2] # edges_map[last.ret[1]][3]

\* C10: the Ids returned by insert_vertex, insert_edge and insert_bi_edge
\* come from one counter: each is greater than every Id returned before,
\* for vertices and edges alike, also after removals.
C10_IdsIncrease ==
  /\ \A i \in issued : i <= id
  /\ \A value \in VertexValues :
       \A i \in issued : insert_vertex(Self, value).ret > i
  /\ \A from \in LiveVertices, to \in LiveVertices, value \in EdgeValues :
       \A i \in issued :
         /\ insert_edge(Self, from, to, value).ret[1] > i
         /\ insert_bi_edge(Self, from, to, value).ret[1] > i

\* An insert has returned an Id after the holder of an earlier Id was removed.
C10_Witness ==
  /\ last.name \in {"insert_vertex", "insert_edge", "insert_bi_edge"}
  /\ last.ret # None
  /\ \E i \in issued : i < last.ret[1] /\ i \notin LiveVertices \cup LiveEdges

\* The number of places of a sequence that hold x.
Count(seq, x) == Cardinality({k \in DOMAIN seq : seq[k] = x})

\* C11: in every store reachable by insert and remove calls, for all Ids
\* v and w, w occurs in neighbors(v) as often as v occurs in
\* reverse_neighbors(w); so the Reversed view is the edge-reversed graph: w
\* occurs in its neighbors(v) as often as v occurs in the store's
\* neighbors(w), likewise for its reverse_neighbors, and its edges(v, w)
\* are the store's edges(w, v), one for each occurrence of w in its
\* neighbors(v).
C11_ReverseConsistent ==
  \A v \in IdArgs, w \in IdArgs :
    /\ Count(neighbors(Self, v), w) = Count(reverse_neighbors(Self, w), v)
    /\ Count(Reversed_neighbors(Self, v), w) = Count(neighbors(Self, w), v)
    /\ Count(Reversed_reverse_neighbors(Self, v), w)
         = Count(reverse_neighbors(Self, w), v)
    /\ Reversed_edges(Self, v, w) = edges(Self, w, v)
    /\ Len(Reversed_edges(Self, v, w)) = Count(Reversed_neighbors(Self, v), w)

\* After a removal the store keeps an edge that runs one way only, so the
\* Reversed view differs from the store.
C11_Witness ==
  /\ last.name \in {"remove_edge", "remove_vertex"}
  /\ \E v \in LiveVertices, w \in LiveVertices :
       /\ Count(neighbors(Self, v), w) >= 1
       /\ Count(neighbors(Self, w), v) = 0

\* C18: for an Id that is not a live vertex, get_vertex and remove_vertex
\* return None, contains_vertex is false, neighbors and reverse_neighbors
\* are empty and so is edges with the Id on either side; for an Id that is
\* not a live edge, get_edge and remove_edge return None and contains_edge
\* is false; and remove_vertex and remove_edge on such an Id leave every
\* table, every adjacency list and the Id counter as they were.
C18_UnknownIds ==
  \A i \in IdArgs :
    /\ i \notin LiveVertices =>
         /\ get_vertex(Self, i) = None
         /\ ~contains_vertex(Self, i)
         /\ neighbors(Self, i) = <<>>
         /\ reverse_neighbors(Self, i) = <<>>
         /\ \A x \in IdArgs :
              edges(Self, i, x) = <<>> /\ edges(Self, x, i) = <<>>
         /\ remove_vertex(Self, i).ret = None
         /\ remove_vertex(Self, i).g = Self
    /\ i \notin LiveEdges =>
         /\ get_edge(Self, i) = None
         /\ ~contains_edge(Self, i)
         /\ remove_edge(Self, i).ret = None
         /\ remove_edge(Self, i).g = Self

\* A vertex that had edges has been removed, so its Id is a removed one,
\* and the store still holds an edge.
C18_Witness ==
  /\ last.name = "remove_vertex"
  /\ \E i \in issued : i \notin LiveVertices /\ i \notin LiveEdges
  /\ Cardinality(issued) > Cardinality(LiveVertices) + Cardinality(LiveEdges) + 1
  /\ LiveEdges # {}

\* The places of a list whose entry leads to the vertex other.
EntriesTo(list, other) == SelectSeq(list, LAMBDA entry : entry[1] = other)

HasEdge(G, v, w) == w \in Range(Graph_neighbors(G, v))

IsPath(G, p, start, target) ==
  /\ Len(p) >= 1
  /\ p[1] = start
  /\ p[Len(p)] = target
  /\ \A k \in 1..(Len(p) - 1) : HasEdge(G, p[k], p[k + 1])

\* The vertices at most hops edges away from the vertices of S.
RECURSIVE Within(_, _, _)
Within(G, S, hops) ==
  IF hops = 0 THEN S
  ELSE LET near == Within(G, S, hops - 1)
       IN  near \cup UNION {Range(Graph_neighbors(G, v)) : v \in near}

\* The paths compared are those of at most MaxHops edges when the graph has
\* no end; a finite graph needs no more edges than it has vertices.
MaxHops == 8
FiniteVertices(G) ==
  CASE G.kind = "FiniteGraph" -> DOMAIN G.store.vertices_map
    [] G.kind = "FullyConnectedGraph" -> Range(G.vertices)
    [] G.kind = "TableGraph" -> DOMAIN G.neighbors
    [] OTHER -> {}
HopLimit(G) ==
  IF G.kind = "LatticeGraph" THEN MaxHops ELSE Cardinality(FiniteVertices(G))

\* The least number of edges of a path from start to target, if there is one.
MinHops(G, start, target) ==
  LET reaching == {h \in 0..HopLimit(G) : target \in Within(G, {start}, h)}
  IN  IF reaching = {} THEN None
      ELSE Some(CHOOSE h \in reaching : \A other \in reaching : h <= other)

\* The weight of the hop v -> w: its minimal parallel edge.
HopWeight(G, v, w) ==
  LET ws == Range(Graph_edges(G, v, w))
  IN  CHOOSE x \in ws : \A y \in ws : x <= y

RECURSIVE PathWeight(_, _)
PathWeight(G, p) ==
  IF Len(p) <= 1 THEN 0
  ELSE HopWeight(G, p[1], p[2]) + PathWeight(G, Tail(p))

\* The least weights of the paths from start of at most rounds edges: None
\* where there is no such path.
RECURSIVE LeastWeights(_, _, _)
LeastWeights(G, start, rounds) ==
  IF rounds = 0
  THEN [v \in FiniteVertices(G) \cup {start} |->
          IF v = start THEN Some(0) ELSE None]
  ELSE LET D == LeastWeights(G, start, rounds - 1)
           via(w) == {D[v][1] + HopWeight(G, v, w) :
                        v \in {u \in DOMAIN D : D[u] # None /\ HasEdge(G, u, w)}}
                     \cup Range(D[w])
       IN  [w \in DOMAIN D |->
              IF via(w) = {} THEN None
              ELSE Some(CHOOSE x \in via(w) : \A y \in via(w) : x <= y)]

\* The least weight of a path from start to target, if there is one.
Dist(G, start, target) ==
  LET D == LeastWeights(G, start, Cardinality(FiniteVertices(G)))
  IN  IF target \in DOMAIN D THEN D[target] ELSE None

\* construct_path(target) has just returned, called on the traverser as
\* bfs, dijkstra or astar returned it.
FirstPathCall ==
  /\ call.name = "construct_path"
  /\ call.before = 0

(***************************************************************************)
(* C3. BFS: construct_path(target) on the traverser bfs(start) returned,   *)
(* for a target that start reaches, returns a path from start to target    *)
(* over edges of the graph with the least number of edges a path from      *)
(* start to target has; on the grid with (0,1) blocked the path from       *)
(* (0,0) to (0,5) has 8 vertices.                                          *)
(***************************************************************************)
C3_BfsShortestPath ==
  (trav.kind = "bfs" /\ FirstPathCall) =>
    LET target == call.arg[1]
        hops == MinHops(TheGraph, trav.start, target)
    IN  /\ hops # None =>
             /\ call.ret # None
             /\ IsPath(TheGraph, call.ret[1], trav.start, target)
             /\ Len(call.ret[1]) - 1 = hops[1]
        /\ (TheGraph = ScenarioA /\ trav.start = <<0, 0>> /\ target = <<0, 5>>) =>
             /\ call.ret # None
             /\ Len(call.ret[1]) = 8
             /\ call.ret[1][1] = <<0, 0>>
             /\ call.ret[1][8] = <<0, 5>>

\* A first path call on a store whose answer takes two edges, to a target
\* that more than one vertex has an edge to.
C3_Witness ==
  /\ trav.kind = "bfs"
  /\ FirstPathCall
  /\ graph.kind = "FiniteGraph"
  /\ call.ret # None
  /\ Len(call.ret[1]) = 3
  /\ Cardinality({v \in DOMAIN vertices_map :
                    HasEdge(TheGraph, v, call.arg[1])}) >= 2

(***************************************************************************)
(* C2. Dijkstra: on a finite graph with non-negative weights,              *)
(* construct_path(target) on the traverser dijkstra(start) returned, for a *)
(* target that start reaches, returns a path from start to target whose    *)
(* weight, the minimal parallel edge counted on each hop, is the least     *)
(* weight a path from start to target has; on the fully connected graph of *)
(* the test the path from (0,0) to (10,10) is (0,0), (2,5), (4,7),         *)
(* (10,10).                                                                *)
(***************************************************************************)
C2_DijkstraOptimalPath ==
  (trav.kind = "astar" /\ trav.estimator = None /\ FirstPathCall) =>
    LET target == call.arg[1]
        dist == Dist(TheGraph, trav.start, target)
    IN  /\ dist # None =>
             /\ call.ret # None
             /\ IsPath(TheGraph, call.ret[1], trav.start, target)
             /\ PathWeight(TheGraph, call.ret[1]) = dist[1]
        /\ (TheGraph = ScenarioB /\ trav.start = <<0, 0>> /\ target = <<10, 10>>) =>
             call.ret = Some(<< <<0, 0>>, <<2, 5>>, <<4, 7>>, <<10, 10>> >>)

\* A first path call whose answer has two edges and weighs less than the
\* edge that leads from start to the target directly.
C2_Witness ==
  /\ trav.kind = "astar"
  /\ trav.estimator = None
  /\ FirstPathCall
  /\ graph.kind = "FiniteGraph"
  /\ call.ret # None
  /\ Len(call.ret[1]) = 3
  /\ HasEdge(TheGraph, trav.start, call.arg[1])
  /\ PathWeight(TheGraph, call.ret[1])
       < HopWeight(TheGraph, trav.start, call.arg[1])

(***************************************************************************)
(* Vocabulary of A*: estimators, and the Dijkstra traverser of the same    *)
(* graph and start run from its beginning.                                 *)
(***************************************************************************)
ZeroEstimator(t) ==
  /\ t.estimator # None
  /\ \A v \in DOMAIN t.estimator[1] : t.estimator[1][v] = 0

\* estimator(w) <= estimator(v) + graph.edges(v, w).min().unwrap()
\* for all vertices v, w that have an edge from v to w
Monotone(G, estimator) ==
  \A v \in FiniteVertices(G), w \in FiniteVertices(G) :
    HasEdge(G, v, w) => estimator[w] <= estimator[v] + HopWeight(G, v, w)

\* The traverser after count more calls of next() that return a vertex, and
\* the vertices they return.
RECURSIVE Advance(_, _, _)
Advance(G, t, count) ==
  IF count = 0 THEN [t |-> t, out |-> <<>>]
  ELSE LET r == next(G, t)
       IN  IF r.ret = None THEN [t |-> r.t, out |-> <<>>]
           ELSE LET rest == Advance(G, r.t, count - 1)
                IN  [t |-> rest.t, out |-> r.ret \o rest.out]

(***************************************************************************)
(* C4. A* with an estimator that is zero on every vertex behaves as        *)
(* Dijkstra on the same graph and start: after every call the vertices     *)
(* returned so far, the best-known-cost map, the predecessor map and the   *)
(* queue are those of the Dijkstra traverser after as many steps, every    *)
(* call returns what the same call on the Dijkstra traverser returns, and  *)
(* construct_path returns the same for every target.                       *)
(***************************************************************************)
C4_ZeroEstimatorIsDijkstra ==
  (trav.kind = "astar" /\ ZeroEstimator(trav)) =>
    LET now == Advance(TheGraph, dijkstra(trav.start), Len(out))
        before == Advance(TheGraph, dijkstra(trav.start), call.before)
    IN  /\ now.out = out
        /\ now.t.min_edge_map = trav.min_edge_map
        /\ now.t.predecessor_map = trav.predecessor_map
        /\ now.t.queue = trav.queue
        /\ call.name = "next" => next(TheGraph, before.t).ret = call.ret
        /\ call.name = "construct_path" =>
             construct_path(TheGraph, before.t, call.arg[1]).ret = call.ret
        /\ \A target \in Targets(TheGraph) :
             construct_path(TheGraph, now.t, target).ret
               = construct_path(TheGraph, trav, target).ret

\* A* with the zero estimator has answered a path of two edges after
\* relaxing the cost of its target.
C4_Witness ==
  /\ trav.kind = "astar"
  /\ ZeroEstimator(trav)
  /\ FirstPathCall
  /\ call.ret # None
  /\ Len(call.ret[1]) = 3
  /\ HasEdge(TheGraph, trav.start, call.arg[1])
  /\ Len(out) >= 3

(***************************************************************************)
(* C5. A*: on a finite graph with non-negative weights and with a monotone *)
(* estimator, construct_path(target) on the traverser astar(start,         *)
(* estimator) returned, for a target that start reaches, returns a path    *)
(* from start to target of the least weight a path from start to target    *)
(* has, the weight of the path Dijkstra returns.                           *)
(***************************************************************************)
C5_AstarOptimalPath ==
  (/\ trav.kind = "astar"
   /\ trav.estimator # None
   /\ FirstPathCall
   /\ Monotone(TheGraph, trav.estimator[1])) =>
    LET target == call.arg[1]
        dist == Dist(TheGraph, trav.start, target)
    IN  dist # None =>
          /\ call.ret # None
          /\ IsPath(TheGraph, call.ret[1], trav.start, target)
          /\ PathWeight(TheGraph, call.ret[1]) = dist[1]

(***************************************************************************)
(* Claims about every kind of traverser (TraversalSpec).                   *)
(***************************************************************************)
\* C12: for every kind of traverser and in every state of it (fresh,
\* advanced by next(), exhausted), construct_path(start) with the traverser's
\* own start vertex returns Some([start]).
C12_PathToStart ==
  trav # NoTrav =>
    LET r == construct_path(TheGraph, trav, first(trav))
    IN  r.returns /\ r.ret = Some(<<first(trav)>>)

\* The traverser's frontier holds nothing.
QueueEmpty(t) ==
  IF t.kind = "astar" THEN t.queue.binary_heap = {} ELSE t.queue = <<>>

Finite(G) == G.kind # "LatticeGraph"

\* The vertices start reaches, start included.
Reachable(G, start) == Within(G, {start}, HopLimit(G))

\* C13: on a finite graph, for every kind of traverser in any state,
\* construct_path(target) returns None exactly when target differs from the
\* start and the start does not reach it, and when it returns None the
\* traverser's frontier is empty.
C13_NoneIffUnreachable ==
  (trav # NoTrav /\ Finite(TheGraph)) =>
    \A target \in Targets(TheGraph) :
      LET r == construct_path(TheGraph, trav, target)
      IN  /\ r.returns
          /\ r.ret = None <=>
                (target # first(trav)
                   /\ target \notin Reachable(TheGraph, first(trav)))
          /\ r.ret = None => QueueEmpty(r.t)

\* construct_path has returned None on an advanced traverser of a store in
\* which the start reaches another vertex, and Some for a reached target on a
\* traverser that had not discovered it.
C13_Witness ==
  /\ trav # NoTrav
  /\ TheGraph.kind = "FiniteGraph"
  /\ call.name = "construct_path"
  /\ call.ret = None
  /\ call.before > 0
  /\ QueueEmpty(trav)
  /\ Cardinality(Reachable(TheGraph, first(trav))) >= 2
  /\ \E target \in Reachable(TheGraph, first(trav)) \ {first(trav)} :
       construct_path(TheGraph, trav, target).ret # None

\* C14: once next() has returned None the frontier is empty, and on a
\* traverser with an empty frontier next() returns None and leaves the whole
\* traverser as it was: the frontier, the predecessor map with the finished
\* flags or the costs, and so predecessor(v) for every v.
C14_ExhaustedStays ==
  trav # NoTrav =>
    /\ (call.name = "next" /\ call.ret = None) => QueueEmpty(trav)
    /\ QueueEmpty(trav) =>
         LET r == next(TheGraph, trav)
         IN  /\ r.ret = None
             /\ r.t = trav
             /\ \A v \in Keyed(trav) \cup Targets(TheGraph) :
                  predecessor(r.t, v) = predecessor(trav, v)

\* next() has returned None after it returned three vertices.
C14_Witness ==
  /\ trav # NoTrav
  /\ call.name = "next"
  /\ call.ret = None
  /\ Len(out) >= 3
  /\ \E v \in Keyed(trav) : predecessor(trav, v) # None

(***************************************************************************)
(* Claims about the depth-first traverser's events (DfsSpec).              *)
(***************************************************************************)
\* The vertices of the postorder events among evs, in order.
RECURSIVE Postordered(_)
Postordered(evs) ==
  IF evs = <<>> THEN <<>>
  ELSE (IF Head(evs).kind = "PostorderItem" THEN <<Head(evs).vertex>> ELSE <<>>)
       \o Postordered(Tail(evs))

NoRepeat(seq) == \A j, k \in DOMAIN seq : seq[j] = seq[k] => j = k

\* C15: depth-first traversal of a finite graph, with cycles, loops and
\* parallel edges: no vertex has two preorder events or two postorder
\* events, a postorder event comes after the preorder event of its vertex,
\* only vertices the start reaches have events, and when the frontier is
\* empty every vertex the start reaches has had both its events.
C15_PrePostOnce ==
  (trav # NoTrav /\ trav.kind = "dfs") =>
    LET pre == Preordered(events)
        post == Postordered(events)
        reached == Reachable(TheGraph, first(trav))
    IN  /\ NoRepeat(pre)
        /\ NoRepeat(post)
        /\ \A k \in DOMAIN events :
             events[k].kind = "PostorderItem" =>
               \E j \in 1..(k - 1) : events[j] = PreorderItem(events[k].vertex)
        /\ Range(pre) \subseteq reached
        /\ QueueEmpty(trav) => Range(pre) = reached /\ Range(post) = reached

\* The events have ended on a store where the start reaches three vertices
\* or more, itself again among them, and does not reach another.
C15_Witness ==
  /\ trav # NoTrav
  /\ trav.kind = "dfs"
  /\ call.name = "pre_post_iter.next"
  /\ call.ret = None
  /\ Len(events) >= 6
  /\ DOMAIN vertices_map \ Reachable(TheGraph, first(trav)) # {}
  /\ first(trav) \in Within(TheGraph, Range(Graph_neighbors(TheGraph, first(trav))),
                            HopLimit(TheGraph))

\* C16: the events nest as those of a recursive depth-first search: the
\* postorder event of a vertex v comes only after the postorder event (and so
\* the preorder event) of every vertex whose recorded predecessor is v, on
\* every finite graph, cycles included.
C16_ProperlyNested ==
  (trav # NoTrav /\ trav.kind = "dfs") =>
    \A w \in Keyed(trav) :
      LET p == predecessor(trav, w)
      IN  p # None =>
            \A k \in DOMAIN events :
              events[k] = PostorderItem(p[1]) =>
                \E j \in 1..(k - 1) : events[j] = PostorderItem(w)

(***************************************************************************)
(* Claims about the AstarContainer (ContainerSpec).                        *)
(***************************************************************************)
\* The pair of seq with the least cost, the first of them in seq.
EarliestLeast(seq) ==
  LET k == CHOOSE i \in DOMAIN seq :
             \A j \in DOMAIN seq :
               seq[i][2] < seq[j][2] \/ (seq[i][2] = seq[j][2] /\ i <= j)
  IN  seq[k]

\* C17: after any sequence of push and pop, pop returns None exactly when
\* nothing is held; otherwise it returns the held (value, cost) pair of least
\* cost, the earliest pushed of them, and removes that entry alone; every
\* pair pushed and not yet returned is held, a value as often as it was
\* pushed.
C17_PopLeastEarliest ==
  LET r == AstarContainer_pop(container)
  IN  /\ Cardinality(container.binary_heap) = Len(held)
      /\ Cardinality(DOMAIN container.id_map) = Len(held)
      /\ r.ret = None <=> held = <<>>
      /\ held # <<>> =>
           /\ r.ret = Some(EarliestLeast(held))
           /\ Cardinality(r.c.binary_heap) = Len(held) - 1
           /\ Cardinality(DOMAIN r.c.id_map) = Len(held) - 1

\* After a pop, three pairs are held: two of the least cost with different
\* values, and a value twice.
C17_Witness ==
  /\ Len(held) = 3
  /\ container.id > Len(held)
  /\ \E i, j \in DOMAIN held :
       /\ i < j
       /\ held[i][2] = held[j][2]
       /\ held[i][1] # held[j][1]
       /\ \A k \in DOMAIN held : held[i][2] <= held[k][2]
  /\ \E i, j \in DOMAIN held : i # j /\ held[i][1] = held[j][1]

(***************************************************************************)
(* Claims about the order of the breadth-first traverser (BfsSpec).        *)
(***************************************************************************)
\* C20: on a finite graph the vertices next() has returned on a BFS
\* traverser are vertices the start reaches, none of them twice, the start
\* first and each at least as many edges from the start as the one before
\* it; next() returns None exactly when the frontier is empty, and then every
\* vertex the start reaches has been returned.
C20_BfsOrder ==
  (trav # NoTrav /\ trav.kind = "bfs" /\ Finite(TheGraph)) =>
    LET reached == Reachable(TheGraph, first(trav))
        hops(v) == MinHops(TheGraph, first(trav), v)[1]
    IN  /\ NoRepeat(out)
        /\ Range(out) \subseteq reached
        /\ out # <<>> => out[1] = first(trav)
        /\ \A k \in 1..(Len(out) - 1) : hops(out[k]) <= hops(out[k + 1])
        /\ next(TheGraph, trav).ret = None <=> QueueEmpty(trav)
        /\ QueueEmpty(trav) => Range(out) = reached

\* next() has returned None after all five vertices of a store, the last of
\* them three edges from the start, with a vertex that two vertices lead to.
C20_Witness ==
  /\ trav # NoTrav
  /\ trav.kind = "bfs"
  /\ TheGraph.kind = "FiniteGraph"
  /\ call.name = "next"
  /\ call.ret = None
  /\ Len(out) = 5
  /\ MinHops(TheGraph, first(trav), out[5]) = Some(3)
  /\ \E v \in Range(out) : Len(reverse_neighbors(Self, v)) >= 2

(***************************************************************************)
(* Claims about the steps of the Dijkstra/A* traverser.                    *)
(***************************************************************************)
IsDijkstra(t) == t.kind = "astar" /\ t.estimator = None

\* The entry the next call of next() pops: Some(<<vertex, cost>>), or None.
NextPopped(t) ==
  LET top == AstarContainer_pop(t.queue).ret
  IN  IF top = None THEN None ELSE Some(top[1][1])

\* C21: the first entry a Dijkstra traverser pops is the start at cost
\* zero, and the accumulated cost of the entry to be popped next never
\* decreases from one call to the next: the costs of the entries popped by
\* successive next() calls are non-decreasing.
C21_PoppedCostsAscend ==
  [][/\ (trav = NoTrav /\ IsDijkstra(trav')) =>
          NextPopped(trav') = Some(<<first(trav'), 0>>)
     /\ (IsDijkstra(trav) /\ NextPopped(trav) # None
           /\ NextPopped(trav') # None) =>
          NextPopped(trav)[1][2] <= NextPopped(trav')[1][2]]_vars

\* Three calls of next() have popped entries, the last of them at a cost
\* above zero, and an entry of a higher cost is still to be popped.
C21_Witness ==
  /\ trav # NoTrav
  /\ IsDijkstra(trav)
  /\ call.name = "next"
  /\ Len(out) >= 3
  /\ NextPopped(trav) # None
  /\ NextPopped(trav)[1][2] > 1
  /\ \E v \in DOMAIN trav.min_edge_map :
       trav.min_edge_map[v] > 0 /\ trav.min_edge_map[v] < NextPopped(trav)[1][2]

\* A vertex the graph does not have.
Nowhere(G) == IF G.kind = "FiniteGraph" THEN 0 ELSE <<-1, -1>>

\* next() called until it returns None: the vertices returned on the way, and
\* whether None came within MaxFind calls.
Drained(G, t) == Find(G, t, Nowhere(G), MaxFind)

\* v lies on a cycle of the graph.
OnCycle(G, v) == v \in Within(G, Range(Graph_neighbors(G, v)), HopLimit(G))

\* C22: on a finite graph with non-negative integer weights, a BFS, DFS,
\* Dijkstra or A* traverser in any state returns None after finitely many
\* calls of next(), and construct_path(target) returns for every target,
\* reached or not.
C22_Terminates ==
  (trav # NoTrav /\ Finite(TheGraph)) =>
    /\ Drained(TheGraph, trav).returns
    /\ QueueEmpty(Drained(TheGraph, trav).t)
    /\ \A target \in Targets(TheGraph) \cup {Nowhere(TheGraph)} :
         construct_path(TheGraph, trav, target).returns

\* construct_path has returned None for an Id the store does not have, on a
\* store where the start reaches a cycle, after next() returned three
\* vertices or more.
C22_Witness ==
  /\ trav # NoTrav
  /\ TheGraph.kind = "FiniteGraph"
  /\ call.name = "construct_path"
  /\ call.arg = Some(0)
  /\ call.ret = None
  /\ Len(out) >= 3
  /\ \E v \in Reachable(TheGraph, first(trav)) : OnCycle(TheGraph, v)

\* The entries pushed onto the frontier of t since the frontier's counter was
\* from: a set of <<value, key>> with the entry's id, so that equal entries
\* count apart.
PushedSince(t, from) ==
  {<<t.queue.id_map[e[2]], e[1], e[2]>> :
     e \in {x \in t.queue.binary_heap : x[2] >= from}}

\* C23: a call of next() on a Dijkstra/A* traverser that pops (v, cost):
\* a neighbor n of v with edges(v, n) not empty has new_cost = cost + the
\* least of edges(v, n); if n has no recorded cost or new_cost is less than
\* it, the call records new_cost for n, sets predecessor(n) = v and pushes
\* (n, new_cost) once, with key new_cost, plus estimator(n) if there is an
\* estimator; for every other vertex, a neighbor with no edge among them,
\* the call changes neither cost nor predecessor and pushes nothing; no
\* recorded cost grows.
C23_Relaxation ==
  (trav # NoTrav /\ trav.kind = "astar" /\ NextPopped(trav) # None) =>
    LET v == NextPopped(trav)[1][1]
        cost == NextPopped(trav)[1][2]
        after == next(TheGraph, trav).t
        pushed == PushedSince(after, trav.queue.id)
        ws(n) == Range(Graph_edges(TheGraph, v, n))
        new_cost(n) == cost + (CHOOSE w \in ws(n) : \A x \in ws(n) : w <= x)
        improves(n) ==
          /\ n \in Range(Graph_neighbors(TheGraph, v))
          /\ ws(n) # {}
          /\ n \in DOMAIN trav.min_edge_map => new_cost(n) < trav.min_edge_map[n]
        key(n) == IF trav.estimator = None THEN new_cost(n)
                  ELSE new_cost(n) + trav.estimator[1][n]
        all == FiniteVertices(TheGraph) \cup DOMAIN trav.min_edge_map
    IN  /\ \A n \in all :
             IF improves(n)
             THEN /\ MapGet(after.min_edge_map, n) = Some(new_cost(n))
                  /\ MapGet(after.predecessor_map, n) = Some(Some(v))
                  /\ Cardinality({e \in pushed : e[1][1] = n}) = 1
                  /\ \E e \in pushed :
                       e[1] = <<n, new_cost(n)>> /\ e[2] = key(n)
             ELSE /\ MapGet(after.min_edge_map, n) = MapGet(trav.min_edge_map, n)
                  /\ MapGet(after.predecessor_map, n)
                       = MapGet(trav.predecessor_map, n)
                  /\ {e \in pushed : e[1][1] = n} = {}
        /\ DOMAIN after.min_edge_map \subseteq all
        /\ \A e \in pushed : e[1][1] \in all
        /\ after.queue.binary_heap \ AstarContainer_pop(trav.queue).c.binary_heap
             = {<<e[2], e[3]>> : e \in pushed}
        /\ \A n \in DOMAIN trav.min_edge_map :
             after.min_edge_map[n] <= trav.min_edge_map[n]

\* The entry to be popped is of a vertex with a neighbor that has no edge, a
\* neighbor over two parallel edges whose cost improves, and a neighbor whose
\* recorded cost stays, on an A* traverser with an estimate above zero.
C23_Witness ==
  /\ trav # NoTrav
  /\ trav.kind = "astar"
  /\ trav.estimator # None
  /\ NextPopped(trav) # None
  /\ LET v == NextPopped(trav)[1][1]
         cost == NextPopped(trav)[1][2]
         nbrs == Range(Graph_neighbors(TheGraph, v))
     IN  /\ \E n \in nbrs : Graph_edges(TheGraph, v, n) = <<>>
         /\ \E n \in nbrs :
              /\ Graph_edges(TheGraph, v, n) = <<1, 0>>
              /\ n \in DOMAIN trav.min_edge_map
              /\ cost < trav.min_edge_map[n]
              /\ trav.estimator[1][n] > 0
         /\ \E n \in nbrs :
              /\ Graph_edges(TheGraph, v, n) # <<>>
              /\ n \in DOMAIN trav.min_edge_map
              /\ cost >= trav.min_edge_map[n]

\* The traverser as its constructor returned it.
Fresh(t) ==
  IF t.estimator = None THEN dijkstra(t.start)
  ELSE astar(t.start, t.estimator[1])

\* C24: with non-negative weights, and for A* an estimator that is monotone,
\* when next() returns a vertex v for the first time the best-known cost of
\* v is the least weight of a path from the start to v, and the best-known
\* cost and the predecessor of v are the same in every later state.
C24_FirstPopFinal ==
  (/\ trav # NoTrav
   /\ trav.kind = "astar"
   /\ trav.estimator # None => Monotone(TheGraph, trav.estimator[1])) =>
    \A k \in DOMAIN out :
      (\A j \in 1..(k - 1) : out[j] # out[k]) =>
        LET v == out[k]
            then == Advance(TheGraph, Fresh(trav), k).t
        IN  /\ Some(then.min_edge_map[v]) = Dist(TheGraph, first(trav), v)
            /\ trav.min_edge_map[v] = then.min_edge_map[v]
            /\ trav.predecessor_map[v] = then.predecessor_map[v]

\* C25: on a finite graph with non-negative weights, construct_path(target)
\* on a Dijkstra traverser that next() has advanced any number of times
\* returns, for every target the start reaches, a path from the start to the
\* target of the least weight such a path has.
C25_ResumedPathOptimal ==
  (trav # NoTrav /\ IsDijkstra(trav)) =>
    \A target \in Targets(TheGraph) :
      LET dist == Dist(TheGraph, first(trav), target)
          advanced == Advance(TheGraph, Fresh(trav), Len(out)).t
          r == construct_path(TheGraph, advanced, target)
      IN  dist # None =>
            /\ r.ret # None
            /\ IsPath(TheGraph, r.ret[1], first(trav), target)
            /\ PathWeight(TheGraph, r.ret[1]) = dist[1]

\* C26: over a graph with non-negative weights, next() on a Dijkstra/A*
\* traverser returns no vertex twice: the frontier entry of a vertex that
\* was returned already is not returned to the caller again.
C26_ReturnedOnce ==
  (trav # NoTrav /\ trav.kind = "astar") => NoRepeat(out)

\* The entry to be popped is stale: its cost is above the best-known cost of
\* its vertex.
StalePop(t) ==
  /\ NextPopped(t) # None
  /\ NextPopped(t)[1][2] > t.min_edge_map[NextPopped(t)[1][1]]

\* C27: when next() on a Dijkstra traverser pops an entry (v, cost) whose
\* cost is above the best-known cost of v, the call changes no best-known
\* cost and no predecessor and pushes nothing: the frontier loses the popped
\* entry and nothing else changes.
C27_StalePopHarmless ==
  (trav # NoTrav /\ IsDijkstra(trav) /\ StalePop(trav)) =>
    LET after == next(TheGraph, trav).t
    IN  /\ after.min_edge_map = trav.min_edge_map
        /\ after.predecessor_map = trav.predecessor_map
        /\ after.queue = AstarContainer_pop(trav.queue).c

\* A stale entry is to be popped, of a vertex with an edge to a vertex other
\* than its recorded successor on the way back to the start.
C27_Witness ==
  /\ trav # NoTrav
  /\ IsDijkstra(trav)
  /\ StalePop(trav)
  /\ LET v == NextPopped(trav)[1][1]
     IN  \E n \in Range(Graph_neighbors(TheGraph, v)) :
           /\ n # v
           /\ Graph_edges(TheGraph, v, n) # <<>>
           /\ predecessor(trav, n) # Some(v)

(***************************************************************************)
(* Claims about the predecessors the traversers record.                    *)
(***************************************************************************)
\* v, its predecessor, and so on, as predecessor_iter(v) yields them.
Chain(t, v) == PredecessorIter(t, v, Cardinality(Keyed(t)))

\* C28: in every state of a BFS, DFS, Dijkstra or A* traverser the start has
\* no predecessor; a vertex v with predecessor(v) = Some(p) is a neighbor of
\* p, and following the predecessors from v visits no vertex twice and ends
\* at the start; every Some(path) construct_path(target) returns begins with
\* the start, ends with target and has an edge of the graph between each
\* consecutive pair.
C28_PredecessorsSound ==
  trav # NoTrav =>
    /\ predecessor(trav, first(trav)) = None
    /\ \A v \in Keyed(trav) :
         predecessor(trav, v) # None =>
           /\ HasEdge(TheGraph, predecessor(trav, v)[1], v)
           /\ NoRepeat(Chain(trav, v))
           /\ Chain(trav, v)[Len(Chain(trav, v))] = first(trav)
    /\ \A target \in Targets(TheGraph) :
         LET r == construct_path(TheGraph, trav, target)
         IN  (r.returns /\ r.ret # None) =>
               IsPath(TheGraph, r.ret[1], first(trav), target)

\* A vertex has a predecessor that has one too, it is a neighbor of a second
\* vertex that has a predecessor, and next() has returned three vertices.
C28_Witness ==
  /\ trav # NoTrav
  /\ Len(out) >= 3
  /\ \E v \in Keyed(trav) :
       /\ Len(Chain(trav, v)) >= 3
       /\ \E q \in Keyed(trav) :
            /\ predecessor(trav, q) # None
            /\ predecessor(trav, v) # Some(q)
            /\ HasEdge(TheGraph, q, v)

\* The positions in out of the vertices, among the first count returned,
\* that list v as a neighbor: next() expands the vertex it returns.
Listers(v, count) ==
  {k \in 1..count : HasEdge(TheGraph, out[k], v)}

Least(S) == CHOOSE x \in S : \A y \in S : x <= y

\* The position in out at which v was first returned.
FirstReturn(v) == Least({k \in DOMAIN out : out[k] = v})

C30_AdvancesOnlyUndiscovered ==
  trav # NoTrav =>
    \A target \in Targets(TheGraph) :
      LET r == construct_path(TheGraph, trav, target)
      IN  /\ target \in Keyed(trav) =>
                /\ r.returns
                /\ r.seen = <<>>
                /\ r.t = trav
          /\ (target \notin Keyed(trav) /\ r.returns) =>
                \A k \in 1..(Len(r.seen) - 1) : r.seen[k] # target

\* The same for every target other than the start vertex.
C30_ExceptStart ==
  trav # NoTrav =>
    \A target \in Targets(TheGraph) \ {first(trav)} :
      LET r == construct_path(TheGraph, trav, target)
      IN  /\ target \in Keyed(trav) =>
                /\ r.returns
                /\ r.seen = <<>>
                /\ r.t = trav
          /\ (target \notin Keyed(trav) /\ r.returns) =>
                \A k \in 1..(Len(r.seen) - 1) : r.seen[k] # target

====
